---- MODULE Spec2Model ----
(***************************************************************************)
(* Tunneling corrections of TAMkin: the Eckart, Wigner and Miller classes  *)
(* of src/tamkin/tunneling.py and the legacy Eckart and Wigner classes of  *)
(* src/lib/tunneling.py.                                                   *)
(*                                                                         *)
(* Units.  Energies are integers in kJ/mol (so kjmol = 1).  A frequency    *)
(* nu is an integer in the unit in which h*nu is a number of kJ/mol.       *)
(* Python exceptions are strings.  The three ValueErrors the constructors  *)
(* raise are told apart by their message: "InvalidTransitionState"         *)
(* ('exactly one negative frequency'), "InvalidInput" ('At least one       *)
(* reactant/product is required') and "InvalidBarrier" ('The forward /     *)
(* reverse barrier is negative').                                          *)
(***************************************************************************)
EXTENDS Integers, Sequences, FiniteSets, TLC

\* ---------------------------------------------------------------- bounds
MaxFreqs == 2
MaxSpecies == 2
MaxTemps == 2
NumThreads == 2

\* the values the environment draws its inputs from
TransEnergies == {-1, 0, 1, 501}
SpeciesEnergies == {0, 500}
Freqs == {-5, 0, 3}
ForwardBarriers == {-1, 0, 1, 500, 501}
ReverseBarriers == {-1, 0, 1}

SeqsUpTo(S, n) == UNION {[1..k -> S] : k \in 0..n}

RECURSIVE Sum(_)
\* Python's sum() over the electronic energies of a list of partition functions
Sum(s) == IF s = <<>> THEN 0 ELSE Head(s) + Sum(Tail(s))

\* ---------------------------------------------------------------- state
\* pf_trans: the caller's partition function of the transition state; obj: the
\* correction object; call: the last call made and what it did; threads: the
\* position of each thread that is inside obj(temps)
VARIABLES pf_trans, obj, call, threads
vars == <<pf_trans, obj, call, threads>>

\* no correction object
NoObj == [mod |-> "none", cls |-> "none", Ef |-> 0, Er |-> 0, nu |-> 0, alias |-> FALSE]

\* an Eckart object with its attributes Ef, Er, nu
EckartObj(mod, Ef, Er, nu) ==
    [mod |-> mod, cls |-> "Eckart", Ef |-> Ef, Er |-> Er, nu |-> nu, alias |-> FALSE]

\* a Wigner or Miller object; alias: self.nu IS the sequence
\* pf_trans.vibrational.negative_freqs, not a number copied out of it
NuObj(mod, cls, nu, alias) ==
    [mod |-> mod, cls |-> cls, Ef |-> 0, Er |-> 0, nu |-> nu, alias |-> alias]

Raise(kind, msg) == [outcome |-> kind, msg |-> msg, obj |-> NoObj]
Return(o) == [outcome |-> "ok", msg |-> "", obj |-> o]

\* ---------------------------------------------------------------- constructors
\* Eckart.__init__ taking the energy of the first reactant and of the first
\* product in place of the sums
Eckart_init_FirstOnly(pfs_react, pf, pfs_prod) ==
    IF Len(pf.negative_freqs) # 1 THEN Raise("NameError", "pf_prod")
    ELSE IF Len(pfs_react) = 0 THEN Raise("InvalidInput", "reactant")
    ELSE IF Len(pfs_react) = 0 THEN Raise("InvalidInput", "product")
    ELSE LET Ef == pf.energy - pfs_react[1]
             Er == pf.energy - (IF pfs_prod = <<>> THEN 0 ELSE pfs_prod[1])
         IN  IF Ef < 0 THEN Raise("InvalidBarrier", "forward")
             ELSE IF Er < 0 THEN Raise("InvalidBarrier", "reverse")
             ELSE Return(EckartObj("tamkin", Ef, Er, pf.negative_freqs[1]))

\* tamkin Eckart.__init__.  The message of the first raise is formatted from
\* pf_prod, a name bound nowhere, so evaluating it raises NameError.
Eckart_init(pfs_react, pf, pfs_prod) ==
    IF Len(pf.negative_freqs) # 1 THEN Raise("NameError", "pf_prod")
    ELSE IF Len(pfs_react) = 0 THEN Raise("InvalidInput", "reactant")
    ELSE IF Len(pfs_react) = 0 THEN Raise("InvalidInput", "product")
    ELSE LET Ef == pf.energy - Sum(pfs_react)
             Er == pf.energy - Sum(pfs_prod)
         IN  IF Ef < 0 THEN Raise("InvalidBarrier", "forward")
             ELSE IF Er < 0 THEN Raise("InvalidBarrier", "reverse")
             ELSE Return(EckartObj("tamkin", Ef, Er, pf.negative_freqs[1]))

\* Eckart._from_parameters without the check of the reverse barrier
Eckart_from_parameters_NoReverseCheck(Ef, Er, nu) ==
    IF Ef < 0 THEN Raise("InvalidBarrier", "forward")
    ELSE Return(EckartObj("tamkin", Ef, Er, nu))

\* Eckart._from_parameters storing the two barriers the wrong way round
Eckart_from_parameters_Swapped(Ef, Er, nu) ==
    IF Ef < 0 THEN Raise("InvalidBarrier", "forward")
    ELSE IF Er < 0 THEN Raise("InvalidBarrier", "reverse")
    ELSE Return(EckartObj("tamkin", Er, Ef, nu))

\* tamkin Eckart._from_parameters
Eckart_from_parameters(Ef, Er, nu) ==
    IF Ef < 0 THEN Raise("InvalidBarrier", "forward")
    ELSE IF Er < 0 THEN Raise("InvalidBarrier", "reverse")
    ELSE Return(EckartObj("tamkin", Ef, Er, nu))

\* tamkin Wigner.__init__ and Miller.__init__ (the same code)
Nu_init(cls, pf) ==
    IF Len(pf.negative_freqs) # 1 THEN Raise("NameError", "pf_prod")
    ELSE Return(NuObj("tamkin", cls, pf.negative_freqs[1], FALSE))

\* tamkin Wigner._from_parameters and Miller._from_parameters
Nu_from_parameters(cls, nu) == Return(NuObj("tamkin", cls, nu, FALSE))

\* legacy Eckart.__init__: the generator "energy for pf.energy in pfs_react"
\* assigns to an attribute of pf, a name bound nowhere: NameError
LibEckart_init(pfs_react, pf, pfs_prod) ==
    IF Len(pf.negative_freqs) # 1 THEN Raise("NameError", "pf_prod")
    ELSE IF Len(pfs_react) = 0 THEN Raise("InvalidInput", "reactant")
    ELSE IF Len(pfs_react) = 0 THEN Raise("InvalidInput", "product")
    ELSE Raise("NameError", "pf")

\* legacy Eckart._from_parameters: no check
LibEckart_from_parameters(Ef, Er, nu) == Return(EckartObj("lib", Ef, Er, nu))

\* legacy Wigner.__init__: self.nu = pf_trans.vibrational.negative_freqs
LibWigner_init(pf) ==
    IF Len(pf.negative_freqs) # 1 THEN Raise("NameError", "pf_prod")
    ELSE Return(NuObj("lib", "Wigner", pf.negative_freqs[1], TRUE))

\* legacy Wigner._from_parameters
LibWigner_from_parameters(nu) == Return(NuObj("lib", "Wigner", nu, FALSE))

\* ---------------------------------------------------------------- compute
kjmol == 1
\* emax = 500*kjmol, "the maximum reasonable barrier height"
EMAX == 500

\* an integrand value that is not a number; the finite ones are naturals
NaN == -1
\* the floating-point comparison a < b: false when either side is NaN
Lt(a, b) == a # NaN /\ b # NaN /\ a < b

RECURSIVE MaxFrom(_, _, _)
MaxFrom(s, i, m) ==
    IF i > Len(s) THEN m
    ELSE MaxFrom(s, i + 1, IF Lt(m, s[i]) THEN s[i] ELSE m)
\* Python's max() of a non-empty sequence: m = s[0], then m = x for each later
\* x with x > m
PyMax(s) == MaxFrom(s, 2, s[1])

\* the shapes of the integrand on the grid that the environment draws from:
\* <<value strictly between the first and the last grid point, value at the
\* last grid point>>, in a unit in which the values are naturals
Profiles == { <<100000, 0>>, <<100001, 1>>, <<100000, 1>>, <<1, 1>>, <<0, 0>> }
\* temperatures, in the unit in which boltzmann*T is a number of kJ/mol
Temps == {1, 2}
\* the number types of the attributes: "python" (Ef, Er, nu are Python
\* numbers), "mixed" (Ef, Er Python numbers, nu a numpy scalar taken out of an
\* array) and "numpy" (Ef, Er are numpy scalars)
NumTypes == {"python", "mixed", "numpy"}

\* numpy.arange(emin, emax, 1*kjmol): the number of grid points
GridLen(emin, emax) == IF emax > emin THEN (emax - emin) \div kjmol ELSE 0

\* l = (Ef**(-0.5) + Er**(-0.5))**(-1)*numpy.sqrt(2) / nu.  A Python number
\* raises on 0**(-0.5) and (Python 2) on a negative base; numpy scalars give
\* inf or nan and go on.  The division by nu is numpy's (numpy.sqrt(2) is a
\* numpy scalar) and never raises.
LStep(o, num) ==
    IF num # "numpy" /\ (o.Ef = 0 \/ (o.Ef > 0 /\ o.Er = 0)) THEN "ZeroDivisionError"
    ELSE IF num # "numpy" /\ (o.Ef < 0 \/ o.Er < 0) THEN "ValueError"
    ELSE "ok"

\* delta(E): 4*Ef*Er/(h*nu)**2 is Python's division, which raises on nu = 0,
\* only when Ef, Er and nu are all Python numbers
DeltaRaises(o, num) == num = "python" /\ o.nu = 0

\* integrandum(E) is nan at every E: a zero or negative barrier (numpy), nu = 0,
\* or 4*Ef*Er/(h*nu)**2 - 0.25 < 0 under numpy.sqrt
IntegrandNaN(o) ==
    \/ o.Ef <= 0 \/ o.Er <= 0 \/ o.nu = 0
    \/ 16 * o.Ef * o.Er < o.nu * o.nu

\* integrandum(emin): alpha(E) is 0 at E = 0 and beta(E) is 0 at E = Ef-Er, so
\* the numerator of P is cosh(x) - cosh(x) at the lower end of the interval
IntegrandAtEmin == 0

\* integranda = numpy.array([integrandum(energy) for energy in energies]) on a
\* grid of n points.  The points strictly between the first and the last all
\* carry the profile's middle value, and one entry stands for all of them:
\* the maximum, the first and the last entry are those of the full array.
Integranda(o, n, prof) ==
    LET first == IF IntegrandNaN(o) THEN NaN ELSE IntegrandAtEmin
        mid == IF IntegrandNaN(o) THEN NaN ELSE prof[1]
        last == IF IntegrandNaN(o) THEN NaN ELSE prof[2]
    IN  IF n = 0 THEN <<>>
        ELSE IF n = 1 THEN <<first>>
        ELSE IF n = 2 THEN <<first, last>>
        ELSE <<first, mid, last>>

\* the test the other way round: the maximum is more than 1e5 times the borders
NotNegligible_Reversed(peak, first, last) ==
    LET border == PyMax(<<first, last>>)
    IN  Lt(IF border = NaN THEN NaN ELSE 100000 * border, peak)

\* max(integranda) * 1e-5 < max([integranda[0], integranda[-1]])
NotNegligible(peak, first, last) ==
    LET border == PyMax(<<first, last>>)
    IN  Lt(peak, IF border = NaN THEN NaN ELSE 100000 * border)

\* the value quad(integrandum, emin, emax)[0] * 1.0/(boltzmann*temp), as a term
EckartValue(o, T) ==
    IF IntegrandNaN(o) THEN [k |-> "nan", cls |-> "Eckart", Ef |-> o.Ef, Er |-> o.Er, nu |-> o.nu, T |-> T]
    ELSE [k |-> "num", cls |-> "Eckart", Ef |-> o.Ef, Er |-> o.Er, nu |-> o.nu, T |-> T]

\* what one _compute_one_temp did: its interval, the arguments it gave to
\* numpy.arange (grid) and to quad, the samples it compared, whether it printed
NoDiag == [n |-> 0, emin |-> 0, emax |-> 0, grid |-> <<>>, quad |-> <<>>,
           first |-> 0, last |-> 0, peak |-> 0, printed |-> FALSE]
Failed(kind, msg, d) == [outcome |-> kind, msg |-> msg, value |-> <<>>, diag |-> d]

\* the lower end of the interval without the maximum with 0
Emin_Unclamped(o) == o.Ef - o.Er

\* emin = max([0, self.Ef-self.Er])
Emin(o) == IF o.Ef - o.Er > 0 THEN o.Ef - o.Er ELSE 0

\* Eckart._compute_one_temp (the same code in both modules)
ComputeOneTemp(o, T, prof, num) ==
    LET emin == Emin(o)
        emax == EMAX * kjmol
        n == GridLen(emin, emax)
        integranda == Integranda(o, n, prof)
        d0 == [NoDiag EXCEPT !.n = n, !.emin = emin, !.emax = emax,
                             !.grid = <<emin, emax>>]
    IN  IF LStep(o, num) # "ok" THEN Failed(LStep(o, num), "l", NoDiag)
        ELSE IF n > 0 /\ DeltaRaises(o, num) THEN Failed("ZeroDivisionError", "delta", d0)
        ELSE IF n = 0 THEN Failed("ValueError", "max() arg is an empty sequence", d0)
        ELSE LET peak == PyMax(integranda)
                 first == integranda[1]
                 last == integranda[Len(integranda)]
             IN  [outcome |-> "ok", msg |-> "", value |-> <<EckartValue(o, T)>>,
                  diag |-> [d0 EXCEPT !.quad = <<emin, emax>>,
                                      !.first = first, !.last = last, !.peak = peak,
                                      !.printed = NotNegligible(peak, first, last)]]

RECURSIVE EckartLoop(_, _, _, _, _, _, _)
\* the loop of Eckart.__call__ from index i on; acc and ds are the values and
\* the diagnostics of the temperatures done
EckartLoop(o, temps, prof, num, i, acc, ds) ==
    IF i > Len(temps) THEN [outcome |-> "ok", msg |-> "", out |-> "array", result |-> acc, diags |-> ds]
    ELSE LET r == ComputeOneTemp(o, temps[i], prof[temps[i]], num)
         IN  IF r.outcome # "ok"
             THEN [outcome |-> r.outcome, msg |-> r.msg, out |-> "none", result |-> <<>>, diags |-> ds]
             ELSE EckartLoop(o, temps, prof, num, i + 1, acc \o r.value, Append(ds, r.diag))

\* tamkin Eckart.__call__: anything with __len__ is looped over
Eckart_call(o, shape, temps, prof, num) ==
    IF shape # "scalar" THEN EckartLoop(o, temps, prof, num, 1, <<>>, <<>>)
    ELSE LET r == ComputeOneTemp(o, temps[1], prof[temps[1]], num)
         IN  [outcome |-> r.outcome, msg |-> r.msg,
              out |-> IF r.outcome = "ok" THEN "scalar" ELSE "none",
              result |-> r.value,
              diags |-> IF r.outcome = "ok" THEN <<r.diag>> ELSE <<>>]

\* legacy Eckart.__call__: numpy.zeros(len(temps)) first
LibEckart_call(o, shape, temps, prof, num) ==
    IF shape = "scalar"
    THEN [outcome |-> "TypeError", msg |-> "len", out |-> "none", result |-> <<>>, diags |-> <<>>]
    ELSE EckartLoop(o, temps, prof, num, 1, <<>>, <<>>)

\* the Wigner factor without the square: 1+(planck*nu/(boltzmann*T))/24
WignerValue_NoSquare(o, T) ==
    [k |-> "num", cls |-> "Wigner", num |-> 24 * T + o.nu, den |-> 24 * T, T |-> T]

\* 1+(planck*nu/(boltzmann*T))**2/24 as the fraction num/den, T in the unit
\* in which boltzmann*T is a number of kJ/mol
WignerValue(o, T) ==
    [k |-> "num", cls |-> "Wigner", num |-> 24 * T * T + o.nu * o.nu, den |-> 24 * T * T, T |-> T]

\* x/numpy.sin(x) with x = 0.5*planck*nu/(boltzmann*T): 0.0/0.0 is nan
MillerValue(o, T) ==
    IF o.nu = 0 THEN [k |-> "nan", cls |-> "Miller", nu |-> o.nu, T |-> T]
    ELSE [k |-> "num", cls |-> "Miller", nu |-> o.nu, T |-> T]

\* tamkin Wigner.__call__ and Miller.__call__: one arithmetic expression on
\* temps; boltzmann*temps raises TypeError when temps is a list
Nu_call(o, shape, temps) ==
    IF shape = "list"
    THEN [outcome |-> "TypeError", msg |-> "float * list", out |-> "none", result |-> <<>>, diags |-> <<>>]
    ELSE [outcome |-> "ok", msg |-> "",
          out |-> IF shape = "scalar" THEN "scalar" ELSE "array",
          result |-> [i \in 1..Len(temps) |->
                        IF o.cls = "Wigner" THEN WignerValue(o, temps[i]) ELSE MillerValue(o, temps[i])],
          diags |-> <<>>]

\* obj(temps)
Compute(o, shape, temps, prof, num) ==
    IF o.cls = "Eckart"
    THEN IF o.mod = "tamkin" THEN Eckart_call(o, shape, temps, prof, num)
         ELSE LibEckart_call(o, shape, temps, prof, num)
    ELSE Nu_call(o, shape, temps)

\* ---------------------------------------------------------------- actions
NoCall == [op |-> "none", outcome |-> "none", msg |-> ""]

\* the threads that share obj
Threads == 1..NumThreads

\* a thread that is not inside obj(temps)
Idle == [pc |-> "idle", shape |-> "none", temps |-> <<>>, i |-> 0, outcome |-> "none",
         msg |-> "", out |-> "none", result |-> <<>>, diags |-> <<>>]

Init ==
    /\ pf_trans = [energy |-> 0, negative_freqs |-> <<-5>>]
    /\ obj = NoObj
    /\ call = NoCall
    /\ threads = [t \in Threads |-> Idle]

\* what a constructor call did: the exception it raised, or "ok"
Outcome(op, mod, r) == [op |-> op, mod |-> mod, outcome |-> r.outcome, msg |-> r.msg]

\* the caller changes the transition state's partition function
SetEnergy ==
    \E e \in TransEnergies :
        /\ e # pf_trans.energy
        /\ pf_trans' = [pf_trans EXCEPT !.energy = e]
        /\ call' = [op |-> "SetEnergy", outcome |-> "ok", msg |-> ""]
        /\ UNCHANGED <<obj, threads>>

\* the caller changes negative_freqs in place
SetNegativeFreqs ==
    \E fs \in SeqsUpTo(Freqs, MaxFreqs) :
        /\ fs # pf_trans.negative_freqs
        /\ pf_trans' = [pf_trans EXCEPT !.negative_freqs = fs]
        /\ call' = [op |-> "SetNegativeFreqs", outcome |-> "ok", msg |-> ""]
        /\ UNCHANGED <<obj, threads>>

\* obj = Eckart(pfs_react, pf_trans, pfs_prod); obj is what the call returned,
\* NoObj when it raised (the same in every constructor below)
NewEckart ==
    \E pfs_react \in SeqsUpTo(SpeciesEnergies, MaxSpecies),
       pfs_prod \in SeqsUpTo(SpeciesEnergies, MaxSpecies) :
        LET r == Eckart_init(pfs_react, pf_trans, pfs_prod)
        IN  /\ call' = Outcome("Eckart", "tamkin", r) @@
                       [Ef |-> pf_trans.energy - Sum(pfs_react),
                        Er |-> pf_trans.energy - Sum(pfs_prod),
                        nfreq |-> Len(pf_trans.negative_freqs),
                        nreact |-> Len(pfs_react), nprod |-> Len(pfs_prod),
                        react |-> pfs_react, prod |-> pfs_prod]
            /\ obj' = r.obj
            /\ UNCHANGED <<pf_trans, threads>>

\* obj = Eckart._from_parameters(Ef, Er, nu)
NewEckartFromParameters ==
    \E Ef \in ForwardBarriers, Er \in ReverseBarriers, nu \in Freqs :
        LET r == Eckart_from_parameters(Ef, Er, nu)
        IN  /\ call' = Outcome("Eckart._from_parameters", "tamkin", r) @@ [Ef |-> Ef, Er |-> Er]
            /\ obj' = r.obj
            /\ UNCHANGED <<pf_trans, threads>>

\* obj = Wigner(pf_trans)
NewWigner ==
    LET r == Nu_init("Wigner", pf_trans)
    IN  /\ call' = Outcome("Wigner", "tamkin", r) @@ [nfreq |-> Len(pf_trans.negative_freqs)]
        /\ obj' = r.obj
        /\ UNCHANGED <<pf_trans, threads>>

\* obj = Miller(pf_trans)
NewMiller ==
    LET r == Nu_init("Miller", pf_trans)
    IN  /\ call' = Outcome("Miller", "tamkin", r) @@ [nfreq |-> Len(pf_trans.negative_freqs)]
        /\ obj' = r.obj
        /\ UNCHANGED <<pf_trans, threads>>

\* obj = Wigner._from_parameters(nu) or Miller._from_parameters(nu)
NewNuFromParameters ==
    \E cls \in {"Wigner", "Miller"}, nu \in Freqs :
        LET r == Nu_from_parameters(cls, nu)
        IN  /\ call' = Outcome("Nu._from_parameters", "tamkin", r) @@ [cls |-> cls]
            /\ obj' = r.obj
            /\ UNCHANGED <<pf_trans, threads>>

\* the legacy module's obj = Eckart(pfs_react, pf_trans, pfs_prod)
NewLibEckart ==
    \E pfs_react \in SeqsUpTo(SpeciesEnergies, MaxSpecies),
       pfs_prod \in SeqsUpTo(SpeciesEnergies, MaxSpecies) :
        LET r == LibEckart_init(pfs_react, pf_trans, pfs_prod)
        IN  /\ call' = Outcome("Eckart", "lib", r) @@
                       [nfreq |-> Len(pf_trans.negative_freqs),
                        nreact |-> Len(pfs_react), nprod |-> Len(pfs_prod)]
            /\ obj' = r.obj
            /\ UNCHANGED <<pf_trans, threads>>

\* the legacy module's obj = Eckart._from_parameters(Ef, Er, nu)
NewLibEckartFromParameters ==
    \E Ef \in ForwardBarriers, Er \in ReverseBarriers, nu \in Freqs :
        LET r == LibEckart_from_parameters(Ef, Er, nu)
        IN  /\ call' = Outcome("Eckart._from_parameters", "lib", r) @@ [Ef |-> Ef, Er |-> Er]
            /\ obj' = r.obj
            /\ UNCHANGED <<pf_trans, threads>>

\* the legacy module's obj = Wigner(pf_trans)
NewLibWigner ==
    LET r == LibWigner_init(pf_trans)
    IN  /\ call' = Outcome("Wigner", "lib", r) @@ [nfreq |-> Len(pf_trans.negative_freqs)]
        /\ obj' = r.obj
        /\ UNCHANGED <<pf_trans, threads>>

\* the legacy module's obj = Wigner._from_parameters(nu)
NewLibWignerFromParameters ==
    \E nu \in Freqs :
        LET r == LibWigner_from_parameters(nu)
        IN  /\ call' = Outcome("Wigner._from_parameters", "lib", r)
            /\ obj' = r.obj
            /\ UNCHANGED <<pf_trans, threads>>

\* the round trip: the primary constructor, then _from_parameters on the
\* attributes of the object it returned
RoundTrip ==
    \E cls \in {"Eckart", "Wigner", "Miller"},
       pfs_react \in SeqsUpTo(SpeciesEnergies, MaxSpecies),
       pfs_prod \in SeqsUpTo(SpeciesEnergies, MaxSpecies) :
        LET a == IF cls = "Eckart"
                 THEN Eckart_init(pfs_react, pf_trans, pfs_prod)
                 ELSE Nu_init(cls, pf_trans)
            b == IF cls = "Eckart"
                 THEN Eckart_from_parameters(a.obj.Ef, a.obj.Er, a.obj.nu)
                 ELSE Nu_from_parameters(cls, a.obj.nu)
        IN  /\ cls # "Eckart" => pfs_react = <<>> /\ pfs_prod = <<>>
            /\ a.outcome = "ok"
            /\ obj' = a.obj
            /\ call' = [op |-> "RoundTrip", outcome |-> b.outcome, msg |-> b.msg,
                        second |-> b.obj]
            /\ UNCHANGED <<pf_trans, threads>>

\* whether the integrand's values reach the check of the borders
Sampled(o) == o.cls = "Eckart" /\ ~IntegrandNaN(o) /\ o.Ef - o.Er < EMAX * kjmol

\* obj(temps): temps is a number ("scalar"), a list or a numpy array; prof[T]
\* is the shape of the integrand at temperature T, num the number type of the
\* attributes of obj.  The profile and the number type are drawn only
\* where the outcome depends on them.
Call ==
    \E shape \in {"scalar", "list", "array"}, temps \in SeqsUpTo(Temps, MaxTemps),
       prof \in [Temps -> Profiles], num \in NumTypes :
        /\ obj.cls # "none"
        /\ obj.mod = "lib" => obj.cls = "Eckart"
        /\ shape = "scalar" => Len(temps) = 1
        /\ \A T \in Temps : ~Sampled(obj) \/ (\A i \in 1..Len(temps) : temps[i] # T)
                                => prof[T] = <<0, 0>>
        /\ obj.cls # "Eckart" \/ Sampled(obj) => num = "python"
        /\ call' = [op |-> "call", shape |-> shape, temps |-> temps, num |-> num]
                        @@ Compute(obj, shape, temps, prof, num)
        /\ UNCHANGED <<pf_trans, obj, threads>>

\* construction, and the caller's changes to the partition function
Next ==
    \/ SetEnergy
    \/ SetNegativeFreqs
    \/ NewEckart
    \/ NewEckartFromParameters
    \/ NewWigner
    \/ NewMiller
    \/ NewNuFromParameters
    \/ NewLibEckart
    \/ NewLibEckartFromParameters
    \/ NewLibWigner
    \/ NewLibWignerFromParameters
    \/ RoundTrip

Spec == Init /\ [][Next]_vars

\* construction from parameters, and compute
NextCall ==
    \/ NewEckartFromParameters
    \/ NewNuFromParameters
    \/ NewLibEckartFromParameters
    \/ Call

SpecCall == Init /\ [][NextCall]_vars

\* ---------------------------------------------------------------- threads
\* the objects the threads share, each as _from_parameters returned it
SharedObjects ==
    { Eckart_from_parameters(1, 1, 3).obj, Eckart_from_parameters(501, 1, -5).obj,
      Nu_from_parameters("Wigner", -5).obj, Nu_from_parameters("Miller", 0).obj,
      Nu_from_parameters("Miller", -5).obj }

\* the integrand on the grid is a function of Ef, Er, nu and the temperature:
\* every thread sees the same one
ThreadProfile == [T \in Temps |-> IF T = 1 THEN <<100000, 0>> ELSE <<1, 1>>]

InitThreads ==
    /\ pf_trans = [energy |-> 0, negative_freqs |-> <<-5>>]
    /\ obj \in SharedObjects
    /\ call = NoCall
    /\ threads = [t \in Threads |-> Idle]

\* a compute that normalises self.nu in place
AfterCompute_Normalising(o) == [o EXCEPT !.nu = IF o.nu < 0 THEN -o.nu ELSE o.nu]

\* the attributes of self after _compute_one_temp, or after __call__ of Wigner
\* and Miller: no statement of theirs assigns to self or to a global
AfterCompute(o) == o

\* thread t enters obj(temps) of src/tamkin; the attributes of obj are Python
\* numbers
ThreadCall(t) ==
    \E shape \in {"scalar", "array"}, temps \in SeqsUpTo(Temps, MaxTemps) :
        /\ threads[t].pc = "idle"
        /\ obj.cls # "none" /\ obj.mod = "tamkin"
        /\ shape = "scalar" => Len(temps) = 1
        /\ threads' = [threads EXCEPT ![t] =
                         [Idle EXCEPT !.pc = "run", !.shape = shape, !.temps = temps, !.i = 1]]
        /\ UNCHANGED <<pf_trans, obj, call>>

\* thread t runs up to the next point where another thread can run: the one
\* expression of Wigner and Miller; for Eckart one _compute_one_temp (result,
\* i and temp are locals of the thread), or the return after the loop
ThreadStep(t) ==
    LET f == threads[t]
        whole == Nu_call(obj, f.shape, f.temps)
        one == ComputeOneTemp(obj, f.temps[f.i], ThreadProfile[f.temps[f.i]], "python")
    IN  /\ f.pc = "run"
        /\ threads' = [threads EXCEPT ![t] =
             IF obj.cls # "Eckart"
             THEN [f EXCEPT !.pc = "done", !.outcome = whole.outcome, !.msg = whole.msg,
                            !.out = whole.out, !.result = whole.result]
             ELSE IF f.i > Len(f.temps)
             THEN [f EXCEPT !.pc = "done", !.outcome = "ok", !.out = "array"]
             ELSE IF one.outcome # "ok"
             THEN [f EXCEPT !.pc = "done", !.outcome = one.outcome, !.msg = one.msg,
                            !.result = <<>>]
             ELSE IF f.shape = "scalar"
             THEN [f EXCEPT !.pc = "done", !.outcome = "ok", !.out = "scalar",
                            !.result = one.value, !.diags = <<one.diag>>]
             ELSE [f EXCEPT !.i = f.i + 1, !.result = f.result \o one.value,
                            !.diags = Append(f.diags, one.diag)]]
        /\ obj' = IF obj.cls = "Eckart" /\ f.i > Len(f.temps) THEN obj ELSE AfterCompute(obj)
        /\ UNCHANGED <<pf_trans, call>>

\* the caller in thread t has taken the value returned, or the exception
ThreadReset(t) ==
    /\ threads[t].pc = "done"
    /\ threads' = [threads EXCEPT ![t] = Idle]
    /\ UNCHANGED <<pf_trans, obj, call>>

\* compute calls of several threads on one object, interleaved
NextThreads ==
    \E t \in Threads :
        \/ ThreadCall(t)
        \/ ThreadStep(t)
        \/ ThreadReset(t)

SpecThreads == InitThreads /\ [][NextThreads]_vars

\* ---------------------------------------------------------------- claims
IsCtor(ops, mod) == call.op \in ops /\ call.mod = mod

\* C1: constructing Eckart, Wigner or Miller (src/tamkin) from a transition
\* state whose negative_freqs has a length other than 1 fails with the
\* invalid-transition-state ValueError, and returns no object.
C1_BadFrequencyCountIsInvalidTransitionState ==
    IsCtor({"Eckart", "Wigner", "Miller"}, "tamkin") /\ call.nfreq # 1
        => call.outcome = "InvalidTransitionState" /\ obj = NoObj

\* C2: for a valid transition state, the primary Eckart constructor called
\* with no reactant or with no product fails with the invalid-input error.
C2_EmptyListIsInvalidInput ==
    IsCtor({"Eckart"}, "tamkin") /\ call.nfreq = 1 /\ (call.nreact = 0 \/ call.nprod = 0)
        => call.outcome = "InvalidInput" /\ obj = NoObj

\* C3: every Eckart object of src/tamkin has Ef >= 0 and Er >= 0, and a
\* construction call (either path) that gets as far as the barriers with a
\* negative Ef or Er fails with the invalid-barrier error.
C3_NegativeBarrierRejected ==
    /\ obj.cls = "Eckart" /\ obj.mod = "tamkin" => obj.Ef >= 0 /\ obj.Er >= 0
    /\ call.op = "RoundTrip" /\ call.second.cls = "Eckart"
        => call.second.Ef >= 0 /\ call.second.Er >= 0
    /\ (/\ IsCtor({"Eckart", "Eckart._from_parameters"}, "tamkin")
        /\ call.Ef < 0 \/ call.Er < 0
        /\ (call.op = "Eckart" => call.nfreq = 1 /\ call.nreact > 0))
        => call.outcome = "InvalidBarrier" /\ obj = NoObj

\* C3 witness: the primary constructor has rejected a negative reverse barrier
C3_Witness ==
    /\ IsCtor({"Eckart"}, "tamkin")
    /\ call.nfreq = 1 /\ call.nreact > 0 /\ call.nprod > 0
    /\ call.Ef >= 0 /\ call.Er < 0
    /\ call.outcome = "InvalidBarrier"

\* C4: in every copy of the module, Eckart._from_parameters called with a
\* negative Ef or Er returns no object.
C4_FromParametersRejectsNegativeBarrier ==
    call.op = "Eckart._from_parameters" /\ (call.Ef < 0 \/ call.Er < 0)
        => call.outcome # "ok" /\ obj = NoObj

\* the result of obj(T) for a single temperature T
Alone(o, T, prof, num) == Compute(o, "scalar", <<T>>, [t \in Temps |-> prof], num)

\* C5: whenever the primary constructor accepts, _from_parameters called with
\* the attributes of the object it returned also returns, and its object has
\* the same Ef, Er and nu and the same compute output at every temperature.
C5_RoundTrip ==
    call.op = "RoundTrip"
        => /\ call.outcome = "ok"
           /\ call.second.cls = obj.cls
           /\ call.second.Ef = obj.Ef /\ call.second.Er = obj.Er /\ call.second.nu = obj.nu
           /\ \A T \in Temps, prof \in Profiles, num \in NumTypes :
                Alone(call.second, T, prof, num) = Alone(obj, T, prof, num)

\* C5 witness: a round trip of an Eckart object with two different barriers
C5_Witness ==
    /\ call.op = "RoundTrip" /\ call.outcome = "ok"
    /\ obj.cls = "Eckart" /\ obj.Ef = 501 /\ obj.Er = 1
    /\ call.second = obj

IsCall(classes) == call.op = "call" /\ obj.mod = "tamkin" /\ obj.cls \in classes

\* C6: for Eckart, Wigner and Miller, whenever compute returns a value for
\* each temperature alone, a scalar temperature yields a scalar and a
\* sequence of n temperatures (a list or an array) yields n values, the i-th
\* being the value for the i-th temperature alone.
C6_ShapeAndOrderPreserved ==
    (/\ IsCall({"Eckart", "Wigner", "Miller"})
     /\ \A i \in 1..Len(call.temps), prof \in Profiles :
            Alone(obj, call.temps[i], prof, call.num).outcome = "ok")
        => /\ call.outcome = "ok"
           /\ Len(call.result) = Len(call.temps)
           /\ call.out = IF call.shape = "scalar" THEN "scalar" ELSE "array"
           /\ \A i \in 1..Len(call.temps) : \E prof \in Profiles :
                call.result[i] = Alone(obj, call.temps[i], prof, call.num).result[1]

\* C7: compute on an Eckart object that a constructor of src/tamkin returned
\* raises nothing and returns a number for every temperature T > 0.
C7_ComputeNeverFails ==
    IsCall({"Eckart"}) /\ Len(call.temps) > 0
        => /\ call.outcome = "ok"
           /\ \A i \in 1..Len(call.result) : call.result[i].k = "num"

\* C8: the check of the borders raises nothing, and the value returned does
\* not depend on whether the warning was printed.
C8_CheckIsAdvisory ==
    IsCall({"Eckart"})
        => /\ ~(call.outcome = "ValueError" /\ call.msg = "max() arg is an empty sequence")
           /\ call.outcome = "ok" =>
                \A i \in 1..Len(call.result) : call.result[i] = EckartValue(obj, call.temps[i])

\* a exceeds b by more than 5 orders of magnitude
ExceedsBy5Orders(a, b) == a # NaN /\ b # NaN /\ a > 100000 * b

\* C9 as stated: the warning is printed exactly when the maximum of the
\* sampled integrand exceeds the two border values by more than 5 orders of
\* magnitude.
C9_WarnsIffMaximumExceedsBorders ==
    call.op = "call" /\ obj.cls = "Eckart"
        => \A i \in 1..Len(call.diags) :
              call.diags[i].printed <=>
                 /\ ExceedsBy5Orders(call.diags[i].peak, call.diags[i].first)
                 /\ ExceedsBy5Orders(call.diags[i].peak, call.diags[i].last)

\* C9 amended: the warning is printed exactly when the first or the last
\* sample is greater than 1e-5 times the maximum of the samples.
C9_WarnsIffBorderNotNegligible ==
    call.op = "call" /\ obj.cls = "Eckart"
        => \A i \in 1..Len(call.diags) :
              call.diags[i].printed <=>
                 /\ call.diags[i].peak # NaN
                 /\ \/ 100000 * call.diags[i].first > call.diags[i].peak
                    \/ 100000 * call.diags[i].last > call.diags[i].peak

\* C9 witness: a warning printed for a tail that is as large as the maximum,
\* and none printed for a second temperature whose borders are negligible
C9_Witness ==
    /\ call.op = "call" /\ obj.cls = "Eckart" /\ call.outcome = "ok"
    /\ Len(call.diags) = 2
    /\ call.diags[1].printed /\ call.diags[1].last = call.diags[1].peak
    /\ ~call.diags[2].printed /\ call.diags[2].peak = 100000 /\ call.diags[2].last = 0

\* what self.nu reads as: the sequence itself when it was not copied
StoredNu(o, pf) == IF o.alias THEN pf.negative_freqs ELSE <<o.nu>>

\* C10: a change to the partition function after construction changes no
\* attribute of the correction object (both modules).
C10_NoReferenceRetained ==
    [][obj' = obj /\ obj.cls # "none" => StoredNu(obj', pf_trans') = StoredNu(obj, pf_trans)]_vars

\* C11: compute is stateless.  No step of a compute call changes Ef, Er or nu
\* of the shared object, whatever the interleaving of the threads, and each
\* call that has returned or raised did what the same call does when it runs
\* alone on the object as it was constructed.
C11_ComputeIsStateless ==
    /\ [][obj' = obj]_vars
    /\ [](\A t \in Threads : threads[t].pc = "done" =>
            LET f == threads[t]
                r == Compute(obj, f.shape, f.temps, ThreadProfile, "python")
            IN  /\ f.outcome = r.outcome /\ f.msg = r.msg
                /\ f.out = r.out /\ f.result = r.result)

\* C11 witness: a thread has returned two Eckart factors while another thread
\* is between the two iterations of its loop on the same object
C11_Witness ==
    /\ obj.cls = "Eckart"
    /\ threads[1].pc = "done" /\ threads[1].outcome = "ok" /\ Len(threads[1].result) = 2
    /\ threads[2].pc = "run" /\ threads[2].i = 2 /\ Len(threads[2].result) = 1

Abs(x) == IF x < 0 THEN -x ELSE x

\* C12: every correction object of src/tamkin stores as nu the magnitude of
\* the imaginary frequency: nu >= 0, and after the primary constructor
\* nu = |pf_trans.vibrational.negative_freqs[0]|.
C12_NuIsMagnitude ==
    /\ (obj.cls # "none" /\ obj.mod = "tamkin") => obj.nu >= 0
    /\ (IsCtor({"Eckart", "Wigner", "Miller"}, "tamkin") /\ call.outcome = "ok")
            => obj.nu = Abs(pf_trans.negative_freqs[1])

\* C13: a Miller correction with nu = 0 returns a number (the factor 1), not
\* nan and not an exception, for a scalar temperature and for each entry of
\* an array of temperatures.
C13_MillerZeroIsOne ==
    (IsCall({"Miller"}) /\ obj.nu = 0 /\ call.shape # "list")
        => /\ call.outcome = "ok"
           /\ \A i \in 1..Len(call.result) : call.result[i].k = "num"

\* C14: the Wigner factor is 1 + (h*nu/(kB*T))^2/24 for every temperature
\* T > 0: it is exactly 1 when nu = 0 and never below 1, whatever the sign
\* of nu.
C14_WignerFormula ==
    (IsCall({"Wigner"}) /\ call.outcome = "ok")
        => \A i \in 1..Len(call.result) :
             LET v == call.result[i]
                 T == call.temps[i]
             IN  /\ v.k = "num" /\ v.den > 0
                 /\ v.num * (24 * T * T) = v.den * (24 * T * T + obj.nu * obj.nu)
                 /\ v.num >= v.den
                 /\ obj.nu = 0 => v.num = v.den

\* C14 witness: Wigner with nu = 0 has returned the factor 1 at two different
\* temperatures
C14_Witness ==
    /\ IsCall({"Wigner"}) /\ call.outcome = "ok" /\ obj.nu = 0
    /\ Len(call.result) = 2 /\ call.temps[1] # call.temps[2]
    /\ \A i \in 1..2 : call.result[i].num = call.result[i].den

\* the number of entries of s equal to v
Count(s, v) == Cardinality({i \in 1..Len(s) : s[i] = v})

RECURSIVE Weighted(_, _)
Weighted(s, V) ==
    IF V = {} THEN 0
    ELSE LET v == CHOOSE x \in V : TRUE
         IN  v * Count(s, v) + Weighted(s, V \ {v})
\* the total of the energies in s, taken over the values that occur and not
\* over the positions
Total(s) == Weighted(s, {s[i] : i \in 1..Len(s)})

\* the orders in which the entries of s can be given
Orders(s) == {[i \in 1..Len(s) |-> s[f[i]]] : f \in Permutations(1..Len(s))}

\* C15: with one negative frequency, at least one reactant, at least one
\* product and no negative barrier, the primary Eckart constructor of
\* src/tamkin returns an object with Ef = E_ts - (total energy of the
\* reactants), Er = E_ts - (total energy of the products) and
\* nu = negative_freqs[0], the same object for every order of the reactants
\* and of the products.
C15_BarriersStored ==
    (/\ IsCtor({"Eckart"}, "tamkin")
     /\ call.nfreq = 1 /\ call.nreact > 0 /\ call.nprod > 0
     /\ pf_trans.energy - Total(call.react) >= 0
     /\ pf_trans.energy - Total(call.prod) >= 0)
        => /\ call.outcome = "ok"
           /\ obj.Ef = pf_trans.energy - Total(call.react)
           /\ obj.Er = pf_trans.energy - Total(call.prod)
           /\ obj.nu = pf_trans.negative_freqs[1]
           /\ \A p \in Orders(call.react), q \in Orders(call.prod) :
                Eckart_init(p, pf_trans, q) = Return(obj)

\* C15 witness: an Eckart object built from two reactants of different
\* energies, the one with the higher energy last
C15_Witness ==
    /\ IsCtor({"Eckart"}, "tamkin") /\ call.outcome = "ok"
    /\ call.react = <<0, 500>> /\ call.nprod > 0
    /\ pf_trans.energy = 501 /\ obj.Ef = 1

\* the interval of d is the one claimed for the object o
IntervalAsClaimed(o, d) ==
    /\ d.emin >= 0
    /\ o.Ef <= o.Er => d.emin = 0
    /\ o.Ef > o.Er => d.emin = o.Ef - o.Er
    /\ d.emax = 500
    /\ d.grid = <<d.emin, d.emax>>
    /\ d.quad # <<>> => d.quad = <<d.emin, d.emax>>

\* C16: whenever _compute_one_temp gets as far as its interval, the lower
\* bound is max(0, Ef - Er) (never negative, 0 when Ef <= Er, Ef - Er
\* otherwise), the upper bound is 500 kJ/mol whatever the parameters and the
\* temperature, and the grid and the quadrature are given these two bounds.
C16_IntegrationInterval ==
    (call.op = "call" /\ obj.cls = "Eckart")
        => /\ \A i \in 1..Len(call.diags) :
                 /\ IntervalAsClaimed(obj, call.diags[i])
                 /\ call.diags[i].quad = <<call.diags[i].emin, call.diags[i].emax>>
           /\ \A i \in 1..Len(call.temps), prof \in Profiles :
                 LET d == ComputeOneTemp(obj, call.temps[i], prof, call.num).diag
                 IN  d # NoDiag => IntervalAsClaimed(obj, d)

\* C16 witness: Ef > Er, and two temperatures integrated over [Ef - Er, 500]
C16_Witness ==
    /\ IsCall({"Eckart"}) /\ call.outcome = "ok"
    /\ obj.Ef = 500 /\ obj.Er = 1
    /\ Len(call.diags) = 2 /\ call.temps[1] # call.temps[2]
    /\ \A i \in 1..2 : call.diags[i].quad = <<499, 500>> /\ call.diags[i].grid = <<499, 500>>

\* the error of the first violated check in the order frequency count, lists,
\* forward barrier, reverse barrier; <<"ok", "">> when none is violated
FirstViolated(c) ==
    IF c.nfreq # 1 THEN <<"InvalidTransitionState", "">>
    ELSE IF c.nreact = 0 THEN <<"InvalidInput", "reactant">>
    ELSE IF c.nprod = 0 THEN <<"InvalidInput", "product">>
    ELSE IF c.Ef < 0 THEN <<"InvalidBarrier", "forward">>
    ELSE IF c.Er < 0 THEN <<"InvalidBarrier", "reverse">>
    ELSE <<"ok", "">>

\* C17: the primary Eckart constructor of src/tamkin reports the error of the
\* first violated check in the order frequency count, reactant and product
\* lists, forward barrier, reverse barrier.
C17_FirstViolatedCheckWins ==
    IsCtor({"Eckart"}, "tamkin")
        => /\ call.outcome = FirstViolated(call)[1]
           /\ call.outcome \in {"InvalidInput", "InvalidBarrier"}
                => call.msg = FirstViolated(call)[2]
====
